---- MODULE Spec2Model ----
(***************************************************************************)
(* A model of poikkeusinfo.py: the parser of poikkeusinfo.fi disruption    *)
(* feeds (PoikkeusInfoParser), the line filter (PoikkeusInfoFilter) and    *)
(* the parse -> filter cycle of PoikkeusInfoRunner.fetch / main_testing.   *)
(*                                                                         *)
(* Python values are encoded as follows.                                   *)
(*   None                 the record None                                  *)
(*   a list               List(s), s a sequence                            *)
(*   a dict               a record (a function on its string keys); a key  *)
(*                        is present iff it is in the DOMAIN               *)
(*   a str, or None where only str or None can occur                       *)
(*                        a string, NoneStr standing for None              *)
(*   a datetime           a record year, month, day, hour, minute, tz      *)
(* Non-ASCII letters of the source's string literals are transliterated    *)
(* (a-umlaut -> a, o-umlaut -> o); distinct literals stay distinct.        *)
(***************************************************************************)
EXTENDS Integers, Sequences, FiniteSets, TLC

VARIABLES pc, content, timestamp, config, parsed, filtered, error, text, length, reason

vars == <<pc, content, timestamp, config, parsed, filtered, error, text, length, reason>>

None == [py |-> "None"]

NoneStr == "None"

List(s) == [py |-> "list", items |-> s]

NoError == "no error"

Range(s) == {s[i] : i \in 1..Len(s)}

(***************************************************************************)
(* The datetime module: the proleptic Gregorian calendar, datetimes        *)
(* without seconds, and differences of datetimes in minutes.               *)
(***************************************************************************)
IsLeap(y) == (y % 4 = 0 /\ y % 100 # 0) \/ y % 400 = 0

DaysInMonth(y, m) ==
  IF m = 2 THEN (IF IsLeap(y) THEN 29 ELSE 28)
  ELSE IF m \in {4, 6, 9, 11} THEN 30 ELSE 31

RECURSIVE DaysBeforeMonth(_, _)
DaysBeforeMonth(y, m) ==
  IF m = 1 THEN 0 ELSE DaysBeforeMonth(y, m - 1) + DaysInMonth(y, m - 1)

LeapYearsUpTo(y) == (y \div 4) - (y \div 100) + (y \div 400)

\* days from 1900-01-01 to y-01-01
DaysBeforeYear(y) == 365 * (y - 1900) + LeapYearsUpTo(y - 1) - LeapYearsUpTo(1899)

\* datetime(y, m, d): raises ValueError unless the date exists
ValidDate(y, m, d) == m \in 1..12 /\ d >= 1 /\ d <= DaysInMonth(y, m)

DateTime(y, m, d, h, mi) ==
  [year |-> y, month |-> m, day |-> d, hour |-> h, minute |-> mi, tz |-> "naive"]

\* dt - datetime(1900, 1, 1), a timedelta in minutes
SinceEpoch(dt) ==
  (DaysBeforeYear(dt.year) + DaysBeforeMonth(dt.year, dt.month) + dt.day - 1) * 1440
    + dt.hour * 60 + dt.minute

\* datetime(1900, 1, 1) + a timedelta of n minutes
FromEpoch(n) ==
  LET days == n \div 1440
      y == CHOOSE c \in (1900 + days \div 366)..(1900 + days \div 365) :
             DaysBeforeYear(c) <= days /\ days < DaysBeforeYear(c + 1)
      rest == days - DaysBeforeYear(y)
      m == CHOOSE c \in 1..12 :
             DaysBeforeMonth(y, c) <= rest /\ rest < DaysBeforeMonth(y, c) + DaysInMonth(y, c)
  IN DateTime(y, m, rest - DaysBeforeMonth(y, m) + 1, (n % 1440) \div 60, n % 60)

\* pytz's helsinki.localize(dt): the wall-clock fields are kept, the zone attached
Localize(dt) == [dt EXCEPT !.tz = "Europe/Helsinki"]

(***************************************************************************)
(* Free text.  A text body is modelled by the two parts the parser looks   *)
(* at: the phrase that REASON_RE captures after "Syy:" up to the first     *)
(* period (syy, when has_syy: core followed by pad blanks), and the text   *)
(* that follows "Arvioitu kesto: " (kesto, when has_kesto), as tokens:     *)
(*   hm   a time "H:MM" or "HH:MM"   a = hour, b = minute, w = hour digits *)
(*   h    a number "H" or "HH"       a = value, w = digits                 *)
(*   dm   a date "D.MM" or "DD.MM"   a = day, b = month, w = day digits    *)
(*   dash "-", dot ".", klo "klo"/"kello", asti "asti", word anything else *)
(* Whitespace between tokens is where the patterns allow \s*.              *)
(***************************************************************************)
HM(h, m, w) == [k |-> "hm", a |-> h, b |-> m, w |-> w]

H(h, w) == [k |-> "h", a |-> h, b |-> 0, w |-> w]

DM(d, m, w) == [k |-> "dm", a |-> d, b |-> m, w |-> w]

Sym(s) == [k |-> s, a |-> 0, b |-> 0, w |-> 0]

NoMatch == [matched |-> FALSE, has_end_date |-> FALSE, end_date |-> Sym("none"), end_time |-> Sym("none")]

\* ([0-9]{1,2}:[0-9]{2})|([0-9]{1,2}) at a token: the whole of a time or a
\* number, the day digits of a date
Capture12(tok) == IF tok.k = "dm" THEN H(tok.a, tok.w) ELSE tok

\* ([0-9]{2}:[0-9]{2})|([0-9]{1,2}) at a token: "H:MM" with a one-digit hour
\* matches the second alternative only, which captures the hour
Capture2(tok) ==
  IF tok.k = "dm" \/ (tok.k = "hm" /\ tok.w = 1) THEN H(tok.a, tok.w) ELSE tok

IsDigits(tok) == tok.k \in {"hm", "h", "dm"}

IsTime(tok) == tok.k \in {"hm", "h"}

RECURSIVE SkipDots(_, _)
SkipDots(toks, i) ==
  IF i <= Len(toks) /\ toks[i].k = "dot" THEN SkipDots(toks, i + 1) ELSE i

\* TIME_RE[0]: start_time - end_date[.] (klo|kello)[...] end_time
TIME_RE_1(toks) ==
  IF Len(toks) >= 3 /\ IsTime(toks[1]) /\ toks[2].k = "dash" /\ toks[3].k = "dm"
  THEN LET j == IF Len(toks) >= 4 /\ toks[4].k = "dot" THEN 5 ELSE 4
           e == SkipDots(toks, j + 1)
       IN IF Len(toks) >= j /\ toks[j].k = "klo" /\ e <= Len(toks) /\ IsDigits(toks[e])
          THEN [matched |-> TRUE, has_end_date |-> TRUE, end_date |-> toks[3],
                end_time |-> Capture2(toks[e])]
          ELSE NoMatch
  ELSE NoMatch

\* TIME_RE[1]: end_time [asti][.] and nothing more
TIME_RE_2(toks) ==
  IF /\ Len(toks) >= 1
     /\ IsTime(toks[1])
     /\ LET tail == [i \in 1..(Len(toks) - 1) |-> toks[i + 1].k]
        IN tail \in {<<>>, <<"asti">>, <<"dot">>, <<"asti", "dot">>}
  THEN [matched |-> TRUE, has_end_date |-> FALSE, end_date |-> Sym("none"),
        end_time |-> toks[1]]
  ELSE NoMatch

\* TIME_RE[2]: start_time - end_time, anything after
TIME_RE_3(toks) ==
  IF Len(toks) >= 3 /\ IsTime(toks[1]) /\ toks[2].k = "dash" /\ IsDigits(toks[3])
  THEN [matched |-> TRUE, has_end_date |-> FALSE, end_date |-> Sym("none"),
        end_time |-> Capture12(toks[3])]
  ELSE NoMatch

TIME_RE(i, toks) ==
  CASE i = 1 -> TIME_RE_1(toks)
    [] i = 2 -> TIME_RE_2(toks)
    [] OTHER -> TIME_RE_3(toks)

NumTimeRe == 3

DATE_FORMATS == <<"%d.%m", "%d.%m.", "%d.%m.%Y", "%d..%m", "%d..%m.%Y">>

TIME_FORMATS == <<"%H:%M", "%H">>

\* strptime(end_date, fmt): end_date is always "D.MM" with nothing after it, so
\* only "%d.%m" can consume it exactly; the date is built in the year 1900
StrptimeDateOk(tok, fmt) == fmt = "%d.%m" /\ tok.k = "dm" /\ ValidDate(1900, tok.b, tok.a)

StrptimeDate(tok) == DateTime(1900, tok.b, tok.a, 0, 0)

\* strptime(end_time, fmt)
StrptimeTimeOk(tok, fmt) ==
  \/ fmt = "%H:%M" /\ tok.k = "hm" /\ tok.a <= 23 /\ tok.b <= 59
  \/ fmt = "%H" /\ tok.k = "h" /\ tok.a <= 23

StrptimeTime(tok) == DateTime(1900, 1, 1, tok.a, tok.b)

\* lines 142-148: the first date format that parses adds its offset, none adds 0
RECURSIVE DayPart(_, _)
DayPart(end_date, f) ==
  IF f > Len(DATE_FORMATS) THEN 0
  ELSE IF StrptimeDateOk(end_date, DATE_FORMATS[f])
       THEN SinceEpoch(StrptimeDate(end_date)) - SinceEpoch(DateTime(1900, 1, 1, 0, 0))
       ELSE DayPart(end_date, f + 1)

\* lines 152-159: whether some time format parses end_time
TimeParses(end_time) == \E f \in 1..Len(TIME_FORMATS) : StrptimeTimeOk(end_time, TIME_FORMATS[f])

Returned(v) == [raised |-> NoError, value |-> v]

Raised(e) == [raised |-> e, value |-> None]

\* the for loop over TIME_RE, from the i-th pattern on
RECURSIVE ParseLengthFrom(_, _, _)
ParseLengthFrom(i, estimated_length, ts) ==
  IF i > NumTimeRe THEN Returned(None)
  ELSE LET match == TIME_RE(i, estimated_length)
       IN IF ~match.matched THEN ParseLengthFrom(i + 1, estimated_length, ts)
          ELSE IF ~match.has_end_date /\ ~ValidDate(1900, ts.month, ts.day)
               \* match.group("end_date") raised IndexError; in its handler
               \* datetime(1900, timestamp.month, timestamp.day) raises ValueError
               THEN Raised("ValueError")
          ELSE LET day_part ==
                     IF match.has_end_date THEN DayPart(match.end_date, 1)
                     ELSE SinceEpoch(DateTime(1900, ts.month, ts.day, 0, 0))
                       - SinceEpoch(DateTime(1900, 1, 1, 0, 0))
                   time_part == SinceEpoch(StrptimeTime(match.end_time))
                                  - SinceEpoch(DateTime(1900, 1, 1, 0, 0))
                   year_part == SinceEpoch(DateTime(ts.year, 1, 1, 0, 0))
                                  - SinceEpoch(DateTime(1900, 1, 1, 0, 0))
               IN IF TimeParses(match.end_time)
                  THEN Returned(Localize(FromEpoch(day_part + time_part + year_part)))
                  ELSE ParseLengthFrom(i + 1, estimated_length, ts)

parse_length(txt, ts) ==
  IF ~txt.has_kesto THEN Returned(None) ELSE ParseLengthFrom(1, txt.kesto, ts)

(***************************************************************************)
(* parse_reason and the reason table.                                      *)
(***************************************************************************)
REASON_MAP_Chained ==
  ("liukkaus" :> "keliolosuhteet") @@ ("keliolosuhteet" :> "saaolosuhteet")
    @@ ("Tietyo" :> "tietyo")

REASON_MAP ==
  ("Helsinki City Marathon" :> "yleisotapahtuma")
    @@ ("maraton" :> "yleisotapahtuma")
    @@ ("sambakulkue" :> "yleisotapahtuma")
    @@ ("liukkaus" :> "saaolosuhteet")
    @@ ("tien liukkaus" :> "saaolosuhteet")
    @@ ("Helsinki City Run" :> "yleisotapahtuma")
    @@ ("Vantaa Triathlon" :> "yleisotapahtuma")
    @@ ("lehtikelin aiheuttama liukkaus" :> "saaolosuhteet")
    @@ ("keliolosuhteet" :> "saaolosuhteet")
    @@ ("tekninen hairio" :> "tekninen vika")
    @@ ("Tietyo" :> "tietyo")
    @@ ("Saaolosuhteet" :> "saaolosuhteet")
    @@ ("kulkue" :> "yleisotapahtuma")
    @@ ("juoksutapahtuma" :> "yleisotapahtuma")
    @@ ("virtahairio" :> "tekninen vika")
    @@ ("Tyonseisaus" :> "lakko")
    @@ ("tie poikki (viranomaisten toimesta)" :> "tie poikki")
    @@ ("tyonseisaus" :> "lakko")
    @@ ("tietyomaa" :> "tietyo")
    @@ ("tyomaa" :> "tietyo")
    @@ ("vaihdevika" :> "tekninen vika radassa")
    @@ ("kiskotyot" :> "ratatyot")
    @@ ("Este tiella" :> "este tiella")
    @@ ("saaolosuhteet, ajolangat jaatyy" :> "saaolosuhteet")
    @@ ("vaarin pysakoidyt autot" :> "vaarin pysakoity auto")
    @@ ("vaarin pysakoity auito" :> "vaarin pysakoity auto")

\* d.get(k, default)
DictGet(d, k, default) == IF k \in DOMAIN d THEN d[k] ELSE default

\* the captured group, .strip()ped: the blanks before the period go
Strip(group) == group.core

\* line 167: reason = self.REASON_MAP.get(reason, reason)
NormalizeReason(r) == DictGet(REASON_MAP, r, r)

parse_reason(txt) ==
  IF txt.has_syy THEN NormalizeReason(Strip(txt.syy)) ELSE NoneStr

(***************************************************************************)
(* The decoded document.  xmltodict.parse gives a dict per element with    *)
(* "@name" keys for attributes, "#text" for the text of an element that    *)
(* has attributes, a list for a child repeated two or more times, the      *)
(* bare text (Str) for an element with text and no attributes, and None    *)
(* for an element with neither attributes, children nor text.              *)
(***************************************************************************)
Str(s) == [py |-> "str", s |-> s]

IsPyList(v) == "py" \in DOMAIN v /\ v.py = "list"

IsPyStr(v) == "py" \in DOMAIN v /\ v.py = "str"

TYPE_MAP == ("1" :> "advance_info") @@ ("2" :> "urgent_info")

SOURCE_MAP == ("1" :> "manual") @@ ("2" :> "automatic")

LINETYPE_MAP ==
  ("1" :> "helsinki") @@ ("2" :> "tram") @@ ("3" :> "espoo") @@ ("4" :> "vantaa")
    @@ ("5" :> "regional_traffic") @@ ("6" :> "metro") @@ ("7" :> "ferry")
    @@ ("12" :> "train") @@ ("14" :> "all") @@ ("36" :> "kirkkonummi")
    @@ ("39" :> "kerava")

DIRECTION_MAP == ("1" :> "from_centrum") @@ ("2" :> "to_centrum")

\* d[k]: KeyError when k is no key of d
SubscriptGet(d, k) == [raised |-> NoError, value |-> d[k]]

Subscript(d, k) == IF k \in DOMAIN d THEN SubscriptGet(d, k) ELSE Raised("KeyError")

\* lines 175-178: the first entry of the list tagged "fi", from the i-th on
RECURSIVE PickFi(_, _)
PickFi(items, i) ==
  IF i > Len(items) THEN Returned(None)
  ELSE IF "@lang" \notin DOMAIN items[i] THEN Raised("KeyError")
  ELSE IF items[i]["@lang"] = "fi" THEN Returned(items[i])
  ELSE PickFi(items, i + 1)

parse_info(info, ts) ==
  IF info = None THEN Raised("TypeError")          \* None["TEXT"], line 174
  ELSE IF "TEXT" \notin DOMAIN info THEN Raised("KeyError")   \* info["TEXT"], line 174
  ELSE LET picked == IF IsPyList(info["TEXT"]) THEN PickFi(info["TEXT"].items, 1)
                     ELSE Returned(info["TEXT"])
           text_item == picked.value
       IN IF picked.raised # NoError THEN picked
          ELSE IF text_item = None THEN Returned(None)
          \* "#text" in a str is a substring test, false of the texts modelled
          ELSE IF IsPyStr(text_item) THEN Returned(None)
          ELSE IF "#text" \in DOMAIN text_item
               THEN LET len == parse_length(text_item["#text"], ts)
                    IN IF len.raised # NoError THEN len
                       ELSE Returned([length |-> len.value,
                                      reason |-> parse_reason(text_item["#text"]),
                                      text |-> text_item["#text"]])
               ELSE Returned(None)

\* line 201
ParseLine(line) ==
  [id |-> line["@id"],
   direction |-> DictGet(DIRECTION_MAP, line["@direction"], NoneStr),
   type |-> DictGet(LINETYPE_MAP, line["@linetype"], NoneStr),
   number |-> line["#text"]]

\* every LINE entry modelled carries @id, @direction, @linetype and #text
parse_targets(targets) ==
  IF targets = None THEN None
  ELSE IF "LINE" \in DOMAIN targets
       THEN LET target == IF IsPyList(targets["LINE"]) THEN targets["LINE"].items
                          ELSE <<targets["LINE"]>>
            IN List([i \in 1..Len(target) |-> ParseLine(target[i])])
       ELSE List(<<>>)

\* a timestamp text is modelled by its fields as written; strptime with
\* "%Y-%m-%dT%H:%M:%S" raises ValueError unless they form a date and a time
IsoOk(t) ==
  /\ t.wellformed
  /\ ValidDate(t.year, t.month, t.day)
  /\ t.hour <= 23 /\ t.minute <= 59 /\ t.second <= 61

parse_isoformat(t) ==
  IF IsoOk(t)
  THEN Returned([year |-> t.year, month |-> t.month, day |-> t.day, hour |-> t.hour,
                 minute |-> t.minute, second |-> t.second, tz |-> "Europe/Helsinki"])
  ELSE Raised("ValueError")

parse_validity(validity) ==
  LET from == parse_isoformat(validity["@from"])
      to == parse_isoformat(validity["@to"])
  IN IF from.raised # NoError THEN from
     ELSE IF to.raised # NoError THEN to
     ELSE Returned([valid |-> validity["@status"] = "1", from |-> from.value, to |-> to.value])

LookupTypeGet(code) == Returned(DictGet(TYPE_MAP, code, NoneStr))

\* self.TYPE_MAP[item["@type"]]
LookupType(code) == Subscript(TYPE_MAP, code)

\* self.SOURCE_MAP[item["@source"]]
LookupSource(code) == Subscript(SOURCE_MAP, code)

\* the dict display of parse_item evaluates its values in order; the first
\* exception ends it
parse_item(item, ts) ==
  LET type == IF "@type" \in DOMAIN item THEN LookupType(item["@type"]) ELSE Raised("KeyError")
      source == IF "@source" \in DOMAIN item THEN LookupSource(item["@source"])
                ELSE Raised("KeyError")
      info == IF "INFO" \in DOMAIN item THEN parse_info(item["INFO"], ts)
              ELSE Raised("KeyError")
      validity == IF "VALIDITY" \in DOMAIN item THEN parse_validity(item["VALIDITY"])
                  ELSE Raised("KeyError")
  IN IF "@id" \notin DOMAIN item THEN Raised("KeyError")
     ELSE IF type.raised # NoError THEN type
     ELSE IF source.raised # NoError THEN source
     ELSE IF info.raised # NoError THEN info
     ELSE IF "TARGETS" \notin DOMAIN item THEN Raised("KeyError")
     ELSE IF validity.raised # NoError THEN validity
     ELSE Returned([id |-> item["@id"], type |-> type.value, source |-> source.value,
                    info |-> info.value, lines |-> parse_targets(item["TARGETS"]),
                    validity |-> validity.value])

\* lines 244-245, from the i-th disruption on
RECURSIVE ParseItems(_, _, _, _)
ParseItems(disruptions, i, items, ts) ==
  IF i > Len(disruptions) THEN Returned(List(items))
  ELSE LET r == parse_item(disruptions[i], ts)
       IN IF r.raised # NoError THEN r
          ELSE ParseItems(disruptions, i + 1, Append(items, r.value), ts)

\* parse, on the document as decoded by xmltodict.parse
parse(decoded, ts) ==
  IF "DISRUPTIONS" \notin DOMAIN decoded THEN Returned(None)      \* a bare return
  ELSE LET root == decoded["DISRUPTIONS"]
       IN IF root = None THEN Raised("TypeError")     \* "DISRUPTION" in None
          ELSE IF "DISRUPTION" \in DOMAIN root
               THEN LET disruptions == IF IsPyList(root["DISRUPTION"])
                                       THEN root["DISRUPTION"].items
                                       ELSE <<root["DISRUPTION"]>>
                    IN ParseItems(disruptions, 1, <<>>, ts)
               ELSE Returned(List(<<>>))

(***************************************************************************)
(* PoikkeusInfoFilter.  A configuration is the sequence of the (name,      *)
(* rule) pairs that self.config.items() yields; a rule is a dict with any  *)
(* of the keys line_type, directions, numbers.                             *)
(***************************************************************************)
SetKey(d, k, v) == [x \in DOMAIN d \cup {k} |-> IF x = k THEN v ELSE d[x]]

\* lines 262-267: none of the three tests says continue
LineMatches(rule, filter_by) ==
  /\ ~("line_type" \in DOMAIN rule /\ filter_by.type # rule["line_type"])
  /\ ~("directions" \in DOMAIN rule /\ filter_by.direction \notin rule["directions"])
  /\ ~("numbers" \in DOMAIN rule /\ filter_by.number \notin rule["numbers"])

RejectedNoneOnly(item) == item.lines = None

\* line 258
Rejected(item) == ~item.validity.valid \/ item.lines = None

RECURSIVE ScanLineMajor(_, _, _, _)
ScanLineMajor(cfg, lines, r, l) ==
  IF l > Len(lines) THEN 0
  ELSE IF r > Len(cfg) THEN ScanLineMajor(cfg, lines, 1, l + 1)
  ELSE IF LineMatches(cfg[r].rule, lines[l]) THEN r
  ELSE ScanLineMajor(cfg, lines, r + 1, l)

\* lines 260-269: the nested scan, rules outside, lines inside, from rule r
\* and line l on; the index of the rule of the first match, 0 when none
RECURSIVE Scan(_, _, _, _)
Scan(cfg, lines, r, l) ==
  IF r > Len(cfg) THEN 0
  ELSE IF l > Len(lines) THEN Scan(cfg, lines, r + 1, 1)
  ELSE IF LineMatches(cfg[r].rule, lines[l]) THEN r
  ELSE Scan(cfg, lines, r, l + 1)

filter_item_MarksFirst(cfg, item) ==
  IF Rejected(item) THEN [item |-> item, returned |-> FALSE]
  ELSE LET m == Scan(cfg, item.lines.items, 1, 1)
       IN IF m = 0
          THEN [item |-> IF Len(cfg) > 0 THEN SetKey(item, "display_name", cfg[1].name)
                         ELSE item,
                returned |-> FALSE]
          ELSE [item |-> SetKey(item, "display_name", cfg[m].name), returned |-> TRUE]

\* filter_item: the item as it is left (it is changed in place) and whether
\* it, rather than None, is returned
filter_item(cfg, item) ==
  IF Rejected(item) THEN [item |-> item, returned |-> FALSE]
  ELSE LET m == Scan(cfg, item.lines.items, 1, 1)
       IN IF m = 0 THEN [item |-> item, returned |-> FALSE]
          ELSE [item |-> SetKey(item, "display_name", cfg[m].name), returned |-> TRUE]

\* lines 275-278, from the i-th item on: the items as left and filtered_lines
RECURSIVE FilterFrom(_, _, _, _, _)
FilterFrom(cfg, lines, i, left, filtered_lines) ==
  IF i > Len(lines) THEN [lines |-> List(left), filtered |-> List(filtered_lines)]
  ELSE LET f == filter_item(cfg, lines[i])
       IN FilterFrom(cfg, lines, i + 1, Append(left, f.item),
                     IF f.returned THEN Append(filtered_lines, f.item) ELSE filtered_lines)

(***************************************************************************)
(* Inputs.                                                                 *)
(***************************************************************************)
FirstYear == 2023

LastYear == 2024

MaxPad == 1

MaxLines == 2

MaxItems == 2

MaxRules == 2

RefTimestamps ==
  {DateTime(y, m, d, 12, 0) : <<y, m, d>> \in
     {c \in (FirstYear..LastYear) \X (1..12) \X (1..31) : ValidDate(c[1], c[2], c[3])}}

StartTimes == {HM(10, 0, 2), H(9, 1)}

EndTimes == {HM(14, 0, 2), HM(18, 0, 2), H(15, 2), HM(9, 30, 1), HM(25, 0, 2)}

EndDates == {DM(23, 5, 2), DM(1, 1, 1), DM(29, 2, 2), DM(31, 4, 2)}

KestoTexts ==
  {<<s, Sym("dash"), d, Sym("klo"), e>> : <<s, d, e>> \in StartTimes \X EndDates \X EndTimes}
    \cup {<<s, Sym("dash"), d, Sym("dot"), Sym("klo"), e>> :
            <<s, d, e>> \in {HM(10, 0, 2)} \X EndDates \X EndTimes}
    \cup {<<e>> \o t : <<e, t>> \in EndTimes \X
            {<<>>, <<Sym("asti")>>, <<Sym("dot")>>, <<Sym("asti"), Sym("dot")>>}}
    \cup {<<s, Sym("dash"), e>> : <<s, e>> \in StartTimes \X EndTimes}
    \cup {<<HM(10, 0, 2), Sym("dash"), d, e>> : <<d, e>> \in EndDates \X {HM(14, 0, 2)}}
    \cup {<<Sym("word")>>, <<HM(18, 0, 2), Sym("word")>>}

NoSyy == [core |-> "", pad |-> 0]

Text(has_syy, syy, has_kesto, kesto) ==
  [has_syy |-> has_syy, syy |-> syy, has_kesto |-> has_kesto, kesto |-> kesto]

LengthTexts ==
  {Text(FALSE, NoSyy, TRUE, k) : k \in KestoTexts} \cup {Text(FALSE, NoSyy, FALSE, <<>>)}

ReasonStrings ==
  DOMAIN REASON_MAP \cup {REASON_MAP[k] : k \in DOMAIN REASON_MAP}
    \cup {"", "onnettomuus", "Liukkaus", "liukkaus Arvioitu kesto: 10:00 - 12:00"}

ReasonTexts ==
  {Text(TRUE, [core |-> c, pad |-> n], FALSE, <<>>) : <<c, n>> \in ReasonStrings \X (0..MaxPad)}
    \cup {Text(FALSE, NoSyy, FALSE, <<>>)}

\* "Linja poikkeaa. Syy: liukkaus. Arvioitu kesto: 10:00 - 23.05. klo 14:00"
TextA ==
  Text(TRUE, [core |-> "liukkaus", pad |-> 0], TRUE,
       <<HM(10, 0, 2), Sym("dash"), DM(23, 5, 2), Sym("dot"), Sym("klo"), HM(14, 0, 2)>>)

\* "Arvioitu kesto: 18:00 asti."
TextB == Text(FALSE, NoSyy, TRUE, <<HM(18, 0, 2), Sym("asti"), Sym("dot")>>)

\* a text with neither lead-in
TextPlain == Text(FALSE, NoSyy, FALSE, <<>>)

TextEntry(lang, t) == ("@lang" :> lang) @@ ("#text" :> t)

InfoFi(t) == ("TEXT" :> TextEntry("fi", t))

InfoVariants ==
  {InfoFi(TextA), InfoFi(TextB), InfoFi(TextPlain),
   ("TEXT" :> TextEntry("en", TextA)),
   ("TEXT" :> List(<<TextEntry("se", TextPlain), TextEntry("fi", TextA)>>)),
   ("TEXT" :> List(<<TextEntry("se", TextPlain), TextEntry("en", TextPlain)>>)),
   ("TEXT" :> ("@lang" :> "fi")),
   ("TEXT" :> None),
   ("TEXT" :> Str(TextPlain)),
   ("@id" :> "1"),
   None}

LineE(id, direction, linetype, number) ==
  ("@id" :> id) @@ ("@direction" :> direction) @@ ("@linetype" :> linetype)
    @@ ("#text" :> number)

LineElems ==
  {LineE("1006", "2", "2", "6"), LineE("1300", "2", "6", "M1"),
   LineE("1006", "1", "2", "6"), LineE("1007", "2", "2", "7A")}

LineLists == UNION {[1..n -> LineElems] : n \in 1..MaxLines}

Targets(ls) == IF Len(ls) = 1 THEN ("LINE" :> ls[1]) ELSE ("LINE" :> List(ls))

Iso(y, mo, d, h, mi, sec) ==
  [wellformed |-> TRUE, year |-> y, month |-> mo, day |-> d, hour |-> h, minute |-> mi,
   second |-> sec]

Validity(status) ==
  ("@status" :> status) @@ ("@from" :> Iso(2024, 3, 10, 8, 0, 0))
    @@ ("@to" :> Iso(2024, 3, 10, 6, 30, 0))

ValidityBadFrom ==
  ("@status" :> "1") @@ ("@from" :> [Iso(2024, 2, 30, 8, 0, 0) EXCEPT !.wellformed = FALSE])
    @@ ("@to" :> Iso(2024, 3, 10, 6, 30, 0))

ItemNoTargets(id, type, source, info, validity) ==
  ("@id" :> id) @@ ("@type" :> type) @@ ("@source" :> source) @@ ("INFO" :> info)
    @@ ("VALIDITY" :> validity)

Item(id, type, source, info, targets, validity) ==
  ItemNoTargets(id, type, source, info, validity) @@ ("TARGETS" :> targets)

TargetsA == Targets(<<LineE("1006", "2", "2", "6")>>)

ParserItems ==
  {Item("p1", t, src, InfoFi(TextA), TargetsA, Validity("1")) :
     <<t, src>> \in {"1", "2", "3"} \X {"1", "2", "0"}}
    \cup {Item("p2", "1", "2", i, TargetsA, Validity("1")) : i \in InfoVariants}
    \cup {Item("p3", "2", "1", InfoFi(TextPlain), t, Validity("1")) :
            t \in {None, ("@count" :> "0"), Targets(<<LineE("9", "3", "99", "X")>>)}}
    \cup {ItemNoTargets("p4", "1", "1", InfoFi(TextPlain), Validity("1")),
          Item("p5", "1", "1", InfoFi(TextPlain), TargetsA, ValidityBadFrom)}

FilterItems ==
  {Item("f1", "2", "1", InfoFi(TextPlain), Targets(ls), Validity("1")) : ls \in LineLists}
    \cup {Item("f2", "2", "1", InfoFi(TextPlain), TargetsA, Validity("0")),
          Item("f3", "2", "1", InfoFi(TextPlain), None, Validity("0"))}

CoreItems ==
  {Item("c1", "1", "1", InfoFi(TextA), TargetsA, Validity("1")),
   Item("c2", "2", "2", InfoFi(TextPlain),
        Targets(<<LineE("1300", "2", "6", "M1"), LineE("1006", "2", "2", "6")>>),
        Validity("1")),
   Item("c3", "2", "1", InfoFi(TextPlain), TargetsA, Validity("0")),
   Item("c4", "1", "1", InfoFi(TextPlain), None, Validity("1")),
   Item("c5", "7", "1", InfoFi(TextPlain), TargetsA, Validity("1"))}

Documents ==
  {("html" :> None), ("DISRUPTIONS" :> None), ("DISRUPTIONS" :> ("@valid" :> "1"))}
    \cup {("DISRUPTIONS" :> ("DISRUPTION" :> i)) : i \in ParserItems \cup FilterItems}
    \cup {("DISRUPTIONS" :> ("DISRUPTION" :> List(s))) :
            s \in UNION {[1..n -> CoreItems] : n \in 2..MaxItems}}

RunTimestamps == {DateTime(2024, 3, 10, 12, 0), DateTime(2024, 2, 29, 12, 0)}

Rule(name, rule) == [name |-> name, rule |-> rule]

\* local_settings.LINES
LINES ==
  <<Rule("6(T)", [line_type |-> "tram", numbers |-> {"6", "6T"}, directions |-> {"to_centrum"}]),
    Rule("7B", [line_type |-> "tram", numbers |-> {"7B"}, directions |-> {"from_centrum"}]),
    Rule("7A", [line_type |-> "tram", numbers |-> {"7A"}, directions |-> {"to_centrum"}]),
    Rule("metro", [line_type |-> "metro", directions |-> {"to_centrum"}]),
    Rule("64", [directions |-> {"from_centrum"}, line_type |-> "helsinki", numbers |-> {"64"}]),
    Rule("65A/66A", [directions |-> {"to_centrum"}, line_type |-> "helsinki",
                     numbers |-> {"65A", "66A"}])>>

Rules ==
  {LINES[1], LINES[3], LINES[4], Rule("any", [k \in {} |-> 0])}

Configs ==
  {LINES} \cup
  {c \in UNION {[1..n -> Rules] : n \in 0..MaxRules} :
     \A i, j \in 1..Len(c) : i # j => c[i].name # c[j].name}

Idle == [py |-> "idle"]

(***************************************************************************)
(* The parse -> filter cycle of PoikkeusInfoRunner.fetch and main_testing, *)
(* from the document fetched and decoded.                                  *)
(***************************************************************************)
Init ==
  /\ pc = "fetched"
  /\ content \in Documents
  /\ timestamp \in RunTimestamps
  /\ config \in Configs
  /\ parsed = Idle
  /\ filtered = Idle
  /\ error = NoError
  /\ text = TextPlain /\ length = None /\ reason = NoneStr

\* parsed = self.pip.parse(resp.content, datetime.datetime.now())
Parse ==
  /\ pc = "fetched"
  /\ LET r == parse(content, timestamp)
     IN /\ parsed' = IF r.raised = NoError THEN r.value ELSE parsed
        /\ error' = r.raised
        /\ pc' = IF r.raised = NoError THEN "parsed" ELSE "raised"
  /\ UNCHANGED <<content, timestamp, config, filtered, text, length, reason>>

\* filtered = self.pif.filter(parsed); the items of parsed are changed in place
Filter ==
  /\ pc = "parsed"
  /\ IF parsed = None
     THEN \* for line in None: TypeError
          /\ pc' = "raised"
          /\ error' = "TypeError"
          /\ UNCHANGED <<parsed, filtered>>
     ELSE LET f == FilterFrom(config, parsed.items, 1, <<>>, <<>>)
          IN /\ parsed' = f.lines
             /\ filtered' = f.filtered
             /\ pc' = "filtered"
             /\ UNCHANGED error
  /\ UNCHANGED <<content, timestamp, config, text, length, reason>>

Next == Parse \/ Filter

Spec == Init /\ [][Next]_vars

(***************************************************************************)
(* parse_length alone, on every text and reference timestamp.              *)
(***************************************************************************)
InitLength ==
  /\ pc = "length"
  /\ text \in LengthTexts
  /\ timestamp \in RefTimestamps
  /\ length = None
  /\ error = NoError
  /\ content = Idle /\ config = <<>> /\ parsed = Idle /\ filtered = Idle
  /\ reason = NoneStr

\* a call of parse_length(text, timestamp)
ParseLength ==
  /\ pc = "length"
  /\ LET r == parse_length(text, timestamp)
     IN /\ length' = r.value
        /\ error' = r.raised
        /\ pc' = IF r.raised = NoError THEN "length_returned" ELSE "raised"
  /\ UNCHANGED <<content, timestamp, config, parsed, filtered, text, reason>>

NextLength == ParseLength

SpecLength == InitLength /\ [][NextLength]_vars

(***************************************************************************)
(* parse_reason alone, on every reason phrase.                             *)
(***************************************************************************)
InitReason ==
  /\ pc = "reason"
  /\ text \in ReasonTexts
  /\ reason = NoneStr
  /\ timestamp = DateTime(2024, 3, 10, 12, 0)
  /\ length = None
  /\ error = NoError
  /\ content = Idle /\ config = <<>> /\ parsed = Idle /\ filtered = Idle

\* a call of parse_reason(text)
ParseReason ==
  /\ pc = "reason"
  /\ reason' = parse_reason(text)
  /\ pc' = "reason_returned"
  /\ UNCHANGED <<content, timestamp, config, parsed, filtered, error, text, length>>

NextReason == ParseReason

SpecReason == InitReason /\ [][NextReason]_vars

(***************************************************************************)
(* Properties.                                                             *)
(***************************************************************************)
\* the disruption elements of a decoded document, in document order
Elements(decoded) ==
  IF "DISRUPTIONS" \notin DOMAIN decoded \/ decoded["DISRUPTIONS"] = None THEN <<>>
  ELSE IF "DISRUPTION" \notin DOMAIN decoded["DISRUPTIONS"] THEN <<>>
  ELSE IF IsPyList(decoded["DISRUPTIONS"]["DISRUPTION"])
       THEN decoded["DISRUPTIONS"]["DISRUPTION"].items
       ELSE <<decoded["DISRUPTIONS"]["DISRUPTION"]>>

Without(d, k) == [x \in DOMAIN d \ {k} |-> d[x]]

Min(S) == CHOOSE x \in S : \A y \in S : x <= y

\* a target line satisfies every constraint the rule declares
Satisfies(rule, line) ==
  \A k \in DOMAIN rule :
     /\ k = "line_type" => line.type = rule[k]
     /\ k = "directions" => line.direction \in rule[k]
     /\ k = "numbers" => line.number \in rule[k]

\* the rules of cfg matched by at least one line
MatchedRules(cfg, lines) ==
  {r \in 1..Len(cfg) : \E l \in 1..Len(lines) : Satisfies(cfg[r].rule, lines[l])}

\* C1: no notification in the output of filter has validity.valid false or
\* lines None, whatever the rules are.
C1_OutputValidWithLines ==
  pc = "filtered" =>
    \A i \in 1..Len(filtered.items) :
       filtered.items[i].validity.valid /\ filtered.items[i].lines # None

\* C1 witness: filter has run on an invalid notification whose line a rule
\* without constraints matches, and on a valid one without lines.
C1_Witness ==
  /\ pc = "filtered"
  /\ \E r \in 1..Len(config) : DOMAIN config[r].rule = {}
  /\ \E i \in 1..Len(parsed.items) :
        /\ ~parsed.items[i].validity.valid
        /\ parsed.items[i].lines # None
        /\ Len(parsed.items[i].lines.items) > 0
  /\ \E i \in 1..Len(parsed.items) :
        parsed.items[i].validity.valid /\ parsed.items[i].lines = None

\* C2: a valid notification with lines that some rule matches gets the name
\* of the earliest-declared rule matched by at least one of its lines.
C2_EarliestRuleWins ==
  pc = "filtered" =>
    \A i \in 1..Len(parsed.items) :
       LET item == parsed.items[i]
       IN (item.validity.valid /\ item.lines # None
             /\ MatchedRules(config, item.lines.items) # {}) =>
            /\ "display_name" \in DOMAIN item
            /\ item["display_name"] = config[Min(MatchedRules(config, item.lines.items))].name

\* C2 witness: the earlier rule matches only the second line, a later rule
\* matches the first line, and the earlier rule's name was assigned.
C2_Witness ==
  /\ pc = "filtered"
  /\ \E i \in 1..Len(parsed.items) :
        LET item == parsed.items[i]
        IN /\ item.validity.valid /\ item.lines # None
           /\ Len(item.lines.items) >= 2 /\ Len(config) >= 2
           /\ ~Satisfies(config[1].rule, item.lines.items[1])
           /\ Satisfies(config[2].rule, item.lines.items[1])
           /\ Satisfies(config[1].rule, item.lines.items[2])
           /\ "display_name" \in DOMAIN item
           /\ item["display_name"] = config[1].name

\* C3: a timestamp returned by parse_length has the reference year, the day
\* and month of the captured end date (those of the reference timestamp when
\* the pattern captured none) and the captured end time.
C3_EndTimestampFields ==
  (pc = "length_returned" /\ length # None) =>
    LET i == Min({j \in 1..NumTimeRe : TIME_RE(j, text.kesto).matched
                                        /\ TimeParses(TIME_RE(j, text.kesto).end_time)})
        m == TIME_RE(i, text.kesto)
    IN /\ length.year = timestamp.year
       /\ length.month = (IF m.has_end_date THEN m.end_date.b ELSE timestamp.month)
       /\ length.day = (IF m.has_end_date THEN m.end_date.a ELSE timestamp.day)
       /\ length.hour = m.end_time.a
       /\ length.minute = m.end_time.b

\* C4: without a DISRUPTIONS root, parse returns an empty sequence, raises
\* nothing, and the parse -> filter cycle goes on to an empty output.
C4_EmptyResultWithoutRoot ==
  (pc # "fetched" /\ "DISRUPTIONS" \notin DOMAIN content) =>
    /\ pc \in {"parsed", "filtered"}
    /\ error = NoError
    /\ parsed = List(<<>>)
    /\ pc = "filtered" => filtered = List(<<>>)

\* a document as the feed's interface describes it: every disruption has a
\* known type and source code, an info block of language-tagged text bodies,
\* a targets block and a validity block with well-formed timestamps
IsTextEntry(e) == "@lang" \in DOMAIN e /\ "#text" \in DOMAIN e

ValidElement(e) ==
  /\ {"@id", "@type", "@source", "INFO", "TARGETS", "VALIDITY"} \subseteq DOMAIN e
  /\ e["@type"] \in DOMAIN TYPE_MAP
  /\ e["@source"] \in DOMAIN SOURCE_MAP
  /\ e["INFO"] # None
  /\ "TEXT" \in DOMAIN e["INFO"]
  /\ IF IsPyList(e["INFO"]["TEXT"])
     THEN \A t \in Range(e["INFO"]["TEXT"].items) : IsTextEntry(t)
     ELSE IsTextEntry(e["INFO"]["TEXT"])
  /\ IsoOk(e["VALIDITY"]["@from"]) /\ IsoOk(e["VALIDITY"]["@to"])

ValidDocument(decoded) ==
  /\ "DISRUPTIONS" \in DOMAIN decoded
  /\ \A e \in Range(Elements(decoded)) : ValidElement(e)

\* C5: for a valid document with a DISRUPTIONS root, parse returns one record
\* per DISRUPTION element, the i-th being the parse of the i-th element.
C5_OneRecordPerElement ==
  (pc # "fetched" /\ ValidDocument(content)) =>
    /\ pc \in {"parsed", "filtered"}
    /\ parsed # None
    /\ Len(parsed.items) = Len(Elements(content))
    /\ \A i \in 1..Len(parsed.items) :
          /\ parse_item(Elements(content)[i], timestamp).raised = NoError
          /\ Without(parsed.items[i], "display_name")
               = parse_item(Elements(content)[i], timestamp).value

UnknownCode(e) == e["@type"] \notin DOMAIN TYPE_MAP \/ e["@source"] \notin DOMAIN SOURCE_MAP

\* C6: a disruption element with a type or source code outside the tables
\* makes the parse end in an error (KeyError when it is that element that
\* fails), and no parse result holds a record whose type or source is not a
\* value of the tables.
C6_UnknownCodeIsAnError ==
  /\ (pc # "fetched" /\ \E e \in Range(Elements(content)) : UnknownCode(e)) => pc = "raised"
  /\ (pc # "fetched" /\ Len(Elements(content)) >= 1 /\ UnknownCode(Elements(content)[1]))
       => error = "KeyError"
  /\ (pc \in {"parsed", "filtered"} /\ parsed # None) =>
       \A i \in 1..Len(parsed.items) :
          /\ parsed.items[i].type \in {TYPE_MAP[k] : k \in DOMAIN TYPE_MAP}
          /\ parsed.items[i].source \in {SOURCE_MAP[k] : k \in DOMAIN SOURCE_MAP}

\* C6 witness: the parse has raised KeyError at a second element with an
\* unknown type code, after a first element that parses.
C6_Witness ==
  /\ pc = "raised" /\ error = "KeyError"
  /\ Len(Elements(content)) >= 2
  /\ parse_item(Elements(content)[1], timestamp).raised = NoError
  /\ Elements(content)[2]["@type"] \notin DOMAIN TYPE_MAP

\* the reference timestamp is one parse_length accepts for the element's text
LengthAccepts(e, ts) ==
  \/ e["INFO"] = None
  \/ "TEXT" \notin DOMAIN e["INFO"]
  \/ IsPyList(e["INFO"]["TEXT"])
       /\ \A t \in Range(e["INFO"]["TEXT"].items) :
             "#text" \in DOMAIN t => parse_length(t["#text"], ts).raised = NoError
  \/ ~IsPyList(e["INFO"]["TEXT"])
       /\ (e["INFO"]["TEXT"] = None \/ IsPyStr(e["INFO"]["TEXT"])
             \/ "#text" \notin DOMAIN e["INFO"]["TEXT"]
             \/ parse_length(e["INFO"]["TEXT"]["#text"], ts).raised = NoError)

\* C7: an element with valid type, source and validity is parsed to a record
\* whatever its info and targets are: an info element with no text child or
\* no text body, no fi entry, an empty targets element, unknown line codes,
\* unmatched text; info, or lines, is then None.
C7_DesignedNonErrors ==
  (/\ pc # "fetched"
   /\ Len(Elements(content)) = 1
   /\ {"@id", "@type", "@source", "INFO", "TARGETS", "VALIDITY"}
        \subseteq DOMAIN Elements(content)[1]
   /\ ~UnknownCode(Elements(content)[1])
   /\ IsoOk(Elements(content)[1]["VALIDITY"]["@from"])
   /\ IsoOk(Elements(content)[1]["VALIDITY"]["@to"])
   /\ LengthAccepts(Elements(content)[1], timestamp)) =>
     /\ pc \in {"parsed", "filtered"}
     /\ parsed # None
     /\ Len(parsed.items) = 1
     /\ LET e == Elements(content)[1]
        IN /\ (e["INFO"] = None \/ "TEXT" \notin DOMAIN e["INFO"]) => parsed.items[1].info = None
           /\ e["TARGETS"] = None => parsed.items[1].lines = None

\* C8: looking a reason up in REASON_MAP again changes nothing: the reason
\* parse_reason returns is a fixed point of the lookup, and no value of the
\* table is a key mapped to something else.
C8_NormalizationIdempotent ==
  /\ (pc = "reason_returned" /\ text.has_syy) => NormalizeReason(reason) = reason
  /\ \A k \in DOMAIN REASON_MAP :
        REASON_MAP[k] \in DOMAIN REASON_MAP => REASON_MAP[REASON_MAP[k]] = REASON_MAP[k]

\* C8 witness: parse_reason has returned a reason the table rewrote.
C8_Witness ==
  /\ pc = "reason_returned" /\ text.has_syy
  /\ Strip(text.syy) \in DOMAIN REASON_MAP
  /\ reason # Strip(text.syy)

\* C9: filter adds display_name to exactly the notifications it returns and
\* changes nothing else: each input notification carries display_name
\* afterwards iff it is in the output, and is otherwise as it was.
C9_DisplayNameIffKept ==
  [][(pc = "parsed" /\ pc' = "filtered") =>
       /\ Len(parsed'.items) = Len(parsed.items)
       /\ \A i \in 1..Len(parsed.items) :
             /\ "display_name" \notin DOMAIN parsed.items[i]
             /\ ("display_name" \in DOMAIN parsed'.items[i])
                  <=> (parsed'.items[i] \in Range(filtered'.items))
             /\ Without(parsed'.items[i], "display_name") = parsed.items[i]
       /\ \A j \in 1..Len(filtered'.items) : filtered'.items[j] \in Range(parsed'.items)]_vars

\* C9 witness: filter has kept and labelled one notification and dropped
\* another, which has lines and is valid but matches no rule.
C9_Witness ==
  /\ pc = "filtered"
  /\ Len(filtered.items) >= 1
  /\ \E i \in 1..Len(parsed.items) : "display_name" \in DOMAIN parsed.items[i]
  /\ \E i \in 1..Len(parsed.items) :
        /\ "display_name" \notin DOMAIN parsed.items[i]
        /\ parsed.items[i].validity.valid
        /\ parsed.items[i].lines # None

\* C10: parse_length always returns, None or a timestamp, and never raises,
\* whatever the text and the reference date.
C10_ParseLengthTotal ==
  pc # "length" =>
    /\ pc = "length_returned"
    /\ error = NoError
    /\ length = None \/ length.tz = "Europe/Helsinki"

====
